---------------------------- MODULE Spec2Model ----------------------------
(***************************************************************************)
(* Model of pupil_src/shared_modules/imu_timeline.py: the Madgwick        *)
(* orientation filter (Fusion), the background fusion task driven by the  *)
(* IMUTimeline plugin, the timestamp-sorted Imu_Bisector and the CSV      *)
(* export of Imu_Exporter.                                                *)
(*                                                                         *)
(* Floating point values are modelled in fixed point: the integer v       *)
(* stands for v / ONE.  A division by zero yields inf and 0 * inf yields  *)
(* NaN, as numpy scalars do; NaN then propagates through every operation. *)
(***************************************************************************)
EXTENDS Integers, Sequences, FiniteSets, TLC

VARIABLES
    \* ---- Fusion object under test (SpecFusion) ----
    fusion,        \* the Fusion instance: [q, beta, pitch, roll]
    f_prev,        \* history: the instance's state before the last update
    f_in,          \* history: <<accel, gyro>> of the last update, <<>> before any
    f_n,           \* history: number of update calls so far
    \* ---- Imu_Bisector / Imu_Exporter under test (SpecBisector) ----
    b_data,        \* the data argument of Imu_Bisector(data, data_ts)
    b_ts,          \* the data_ts argument
    bis,           \* the Imu_Bisector instance, BisNew before construction
    world_ts,      \* g_pool.timestamps, the reference clock
    win,           \* the export window of the last csv_export_write
    csv,           \* rows of imu_data.csv, CsvNone while no file was written
    \* ---- IMUTimeline plugin and its background tasks (Spec) ----
    is_invisible_rec,  \* self.is_invisible_rec
    data_raw,          \* self.data_raw: the samples <<gyro_x, gyro_y, gyro_z, accel_x, accel_y, accel_z>>
    data_ts,           \* self.data_ts
    data_orient,       \* self.data_orient: [pitch, roll] per sample; by = the task that wrote it (0: never written)
    gyro_error,        \* self.gyro_error
    bg_task,           \* self.bg_task: index into tasks, 0 for None
    tasks,             \* every IPC_Logging_Task_Proxy created so far, with its background process
    \* ---- IMURecording (SpecLoad) ----
    imu_recs           \* the IMURecording instances constructed so far, each with the files it was given

varsF == <<fusion, f_prev, f_in, f_n>>
varsB == <<b_data, b_ts, bis, world_ts, win>>
varsP == <<is_invisible_rec, data_raw, data_ts, data_orient, gyro_error, bg_task, tasks>>
varsL == <<imu_recs>>
vars == <<varsF, varsB, csv, varsP, varsL>>

(***************************************************************************)
(* Bounds of the model.                                                    *)
(***************************************************************************)
MaxUpdates == 3
MaxLen == 3
MaxData == 2
MaxTasks == 2

(***************************************************************************)
(* Fixed-point arithmetic standing for the float arithmetic of the code.   *)
(***************************************************************************)
\* 1.0, the first component of the identity quaternion
ONE == 1000

\* the value of 0 * inf and of every operation on it
NaN == -1000000000

\* sample_dur = 0.00494 in units of 1e-5
SAMPLE_DUR == 494

\* the units SAMPLE_DUR is expressed in
DUR_UNIT == 100000

Abs(x) == IF x < 0 THEN -x ELSE x

\* a * b of two fixed-point values
Mul(a, b) == (a * b) \div ONE

RECURSIVE IsqrtIn(_, _, _)
IsqrtIn(n, lo, hi) ==
    IF lo >= hi THEN lo
    ELSE LET mid == (lo + hi + 1) \div 2
         IN  IF mid * mid <= n THEN IsqrtIn(n, mid, hi) ELSE IsqrtIn(n, lo, mid - 1)

\* np.sqrt of the sum-of-squares n of fixed-point values: floor(sqrt(n))
Sqrt(n) == IsqrtIn(n, 0, 46340)

\* 1 / norm for a non-zero fixed-point norm
Recip(norm) == (ONE * ONE) \div norm

\* np.radians of a value given in whole degrees (pi / 180 = 0.017453)
Radians(deg) == (deg * 17453) \div 1000

\* sin of 0..90 degrees, Sin[d + 1] = sin(d)
SinTable ==
    << 0, 17, 35, 52, 70, 87, 105, 122, 139, 156, 174, 191, 208, 225, 242,
       259, 276, 292, 309, 326, 342, 358, 375, 391, 407, 423, 438, 454, 469,
       485, 500, 515, 530, 545, 559, 574, 588, 602, 616, 629, 643, 656, 669,
       682, 695, 707, 719, 731, 743, 755, 766, 777, 788, 799, 809, 819, 829,
       839, 848, 857, 866, 875, 883, 891, 899, 906, 914, 921, 927, 934, 940,
       946, 951, 956, 961, 966, 970, 974, 978, 982, 985, 988, 990, 993, 995,
       996, 998, 999, 999, 1000, 1000 >>

\* one degree, in the unit angles are kept in (1/100 degree)
DEG == 100

RECURSIVE AsinSearch(_, _)
AsinSearch(x, d) ==
    IF d = 90 \/ SinTable[d + 2] > x THEN d ELSE AsinSearch(x, d + 1)

\* arcsin of x in [0, 1], interpolated between whole degrees
AsinPos(x) ==
    LET d == AsinSearch(x, 0)
    IN  IF d = 90 THEN 90 * DEG
        ELSE d * DEG + (DEG * (x - SinTable[d + 1])) \div (SinTable[d + 2] - SinTable[d + 1])

\* np.degrees(np.arcsin(x)); nan outside [-1, 1]
AsinDeg(x) ==
    IF Abs(x) > ONE THEN NaN
    ELSE IF x >= 0 THEN AsinPos(x) ELSE -AsinPos(-x)

\* y * cos(d) - x * sin(d): positive while d is below the angle of (x, y)
AtanSide(y, x, d) == y * SinTable[91 - d] - x * SinTable[d + 1]

RECURSIVE AtanSearch(_, _, _)
AtanSearch(y, x, d) ==
    IF d = 90 \/ AtanSide(y, x, d + 1) < 0 THEN d ELSE AtanSearch(y, x, d + 1)

\* arctan2 of y >= 0, x >= 0, interpolated between whole degrees
AtanPos(y, x) ==
    LET d == AtanSearch(y, x, 0)
    IN  IF d = 90 THEN 90 * DEG
        ELSE d * DEG + (DEG * AtanSide(y, x, d)) \div (AtanSide(y, x, d) - AtanSide(y, x, d + 1))

\* np.degrees(np.arctan2(y, x))
Atan2Deg(y, x) ==
    LET a == AtanPos(Abs(y), Abs(x))
    IN  IF y = 0 /\ x = 0 THEN 0
        ELSE IF x >= 0 THEN (IF y >= 0 THEN a ELSE -a)
        ELSE (IF y >= 0 THEN 180 * DEG - a ELSE a - 180 * DEG)

(***************************************************************************)
(* class Fusion                                                            *)
(***************************************************************************)
\* Fusion.__init__ that keeps the quaternion the last finished run left behind
FusionInitShared(ge) ==
    LET done == { t \in 1..Len(tasks) : tasks[t].gen.pc = "done" }
        last == CHOOSE t \in done : \A u \in done : u <= t
    IN  [ q     |-> IF done = {} THEN <<ONE, 0, 0, 0>> ELSE tasks[last].gen.fusion.q,
          beta  |-> Mul(866, Radians(ge)),
          pitch |-> 0,
          roll  |-> 0 ]

\* Fusion.__init__(gyro_error, sample_dur): beta = sqrt(3/4) * radians(gyro_error)
FusionInit(ge) ==
    [ q     |-> <<ONE, 0, 0, 0>>,
      beta  |-> Mul(866, Radians(ge)),
      pitch |-> 0,
      roll  |-> 0 ]

\* norm of the accelerometer measurement, np.sqrt(ax*ax + ay*ay + az*az)
AccelNorm(accel) ==
    Sqrt(accel[1] * accel[1] + accel[2] * accel[2] + accel[3] * accel[3])

\* the state every later update leaves once a NaN entered the quaternion
FusionNaN(f) ==
    [ f EXCEPT !.q = <<NaN, NaN, NaN, NaN>>, !.pitch = NaN, !.roll = NaN ]

\* roll and pitch derived from the quaternion q
FusionAngles(f, q) ==
    LET sarg == 2 * (Mul(q[2], q[4]) - Mul(q[1], q[3]))
        ty   == 2 * (Mul(q[1], q[2]) + Mul(q[3], q[4]))
        tx   == Mul(q[1], q[1]) - Mul(q[2], q[2]) - Mul(q[3], q[3]) + Mul(q[4], q[4])
        as   == AsinDeg(sarg)
    IN  [ f EXCEPT !.q = q,
                   !.roll = IF as = NaN THEN NaN ELSE (-as) + 7 * DEG,
                   !.pitch = Atan2Deg(ty, tx) + 90 * DEG ]

\* Fusion.update after the zero-norm guard: the corrective step, the
\* integration and the renormalisation
FusionStep(f, accel, gyro) ==
    LET q1 == f.q[1]
        q2 == f.q[2]
        q3 == f.q[3]
        q4 == f.q[4]
        gx == Radians(gyro[1])
        gy == Radians(gyro[2])
        gz == Radians(gyro[3])
        _2q1 == 2 * q1
        _2q2 == 2 * q2
        _2q3 == 2 * q3
        _2q4 == 2 * q4
        _4q1 == 4 * q1
        _4q2 == 4 * q2
        _4q3 == 4 * q3
        _8q2 == 8 * q2
        _8q3 == 8 * q3
        q1q1 == Mul(q1, q1)
        q2q2 == Mul(q2, q2)
        q3q3 == Mul(q3, q3)
        q4q4 == Mul(q4, q4)
        anorm == AccelNorm(accel)
        arec == Recip(anorm)
        ax == Mul(accel[1], arec)
        ay == Mul(accel[2], arec)
        az == Mul(accel[3], arec)
        s1 == Mul(_4q1, q3q3) + Mul(_2q3, ax) + Mul(_4q1, q2q2) - Mul(_2q2, ay)
        s2 == Mul(_4q2, q4q4) - Mul(_2q4, ax) + Mul(4 * q1q1, q2) - Mul(_2q1, ay)
              - _4q2 + Mul(_8q2, q2q2) + Mul(_8q2, q3q3) + Mul(_4q2, az)
        s3 == Mul(4 * q1q1, q3) + Mul(_2q1, ax) + Mul(_4q3, q4q4) - Mul(_2q4, ay)
              - _4q3 + Mul(_8q3, q2q2) + Mul(_8q3, q3q3) + Mul(_4q3, az)
        s4 == Mul(4 * q2q2, q4) - Mul(_2q2, ax) + Mul(4 * q3q3, q4) - Mul(_2q3, ay)
        snorm == Sqrt(s1 * s1 + s2 * s2 + s3 * s3 + s4 * s4)
        srec == Recip(snorm)
        n1 == Mul(s1, srec)
        n2 == Mul(s2, srec)
        n3 == Mul(s3, srec)
        n4 == Mul(s4, srec)
        q_dot1 == (Mul(-q2, gx) - Mul(q3, gy) - Mul(q4, gz)) \div 2 - Mul(f.beta, n1)
        q_dot2 == (Mul(q1, gx) + Mul(q3, gz) - Mul(q4, gy)) \div 2 - Mul(f.beta, n2)
        q_dot3 == (Mul(q1, gy) - Mul(q2, gz) + Mul(q4, gx)) \div 2 - Mul(f.beta, n3)
        q_dot4 == (Mul(q1, gz) + Mul(q2, gy) - Mul(q3, gx)) \div 2 - Mul(f.beta, n4)
        r1 == q1 + (q_dot1 * SAMPLE_DUR) \div DUR_UNIT
        r2 == q2 + (q_dot2 * SAMPLE_DUR) \div DUR_UNIT
        r3 == q3 + (q_dot3 * SAMPLE_DUR) \div DUR_UNIT
        r4 == q4 + (q_dot4 * SAMPLE_DUR) \div DUR_UNIT
        qnorm == Sqrt(r1 * r1 + r2 * r2 + r3 * r3 + r4 * r4)
        qrec == Recip(qnorm)
    IN  IF f.q[1] = NaN THEN FusionNaN(f)
        ELSE IF anorm = 0 THEN FusionNaN(f)       \* ax * (1 / 0) with ax = 0
        ELSE IF snorm = 0 THEN FusionNaN(f)       \* s1 * (1 / 0) with s1 = 0
        ELSE IF qnorm = 0 THEN FusionNaN(f)
        ELSE FusionAngles(f, <<Mul(r1, qrec), Mul(r2, qrec), Mul(r3, qrec), Mul(r4, qrec)>>)

\* the same update without the guard on a zero accelerometer norm
FusionUpdateUnguarded(f, accel, gyro) == FusionStep(f, accel, gyro)

\* Fusion.update(accel, gyro)
FusionUpdate(f, accel, gyro) ==
    IF AccelNorm(accel) = 0 THEN f ELSE FusionStep(f, accel, gyro)

\* gyro_error settings of the slider (1..100)
GyroErrors == {1, 50}

\* accelerometer readings in G (fixed point)
Accels == { <<0, 0, 0>>, <<0, 0, ONE>>, <<0, ONE, 0>>, <<600, 0, 800>>, <<-300, 400, 1200>> }

\* gyroscope readings in whole degrees per second
Gyros == { <<0, 0, 0>>, <<90, 0, 0>>, <<0, -45, 120>> }

\* no IMURecording constructed: the state while another component is under test
IdleL == imu_recs = <<>>

IdleF ==
    /\ fusion = FusionInit(50)
    /\ f_prev = fusion
    /\ f_in = <<>>
    /\ f_n = 0

(***************************************************************************)
(* class Imu_Bisector and class Imu_Exporter                               *)
(***************************************************************************)
\* a row of the merged record array (merge_arrays): raw sample k with its orientation
Row(k) ==
    [ gyro_x |-> k, gyro_y |-> k + 1, gyro_z |-> k + 2,
      accel_x |-> 0, accel_y |-> 0, accel_z |-> ONE,
      pitch |-> (90 + k) * DEG, roll |-> (7 - k) * DEG ]

\* a row of another schema: it has no orientation fields
BadRow == [ gyro_x |-> 9, gyro_y |-> 9, gyro_z |-> 9 ]

\* Python values of an export record: a number, a str, None
Num(n) == <<"num", n>>
Text(n) == <<"str", n>>
NONE == <<"none">>

\* an instance before __init__ has stored anything, and the state of the variables
\* that stand for files and arguments not yet there
BisNew == [ raised |-> "", attrs |-> {}, data |-> <<>>, data_ts |-> <<>>, sorted_idc |-> <<>> ]
CsvNone == <<>>

\* np.argsort(data_ts): an index array (0-based) that sorts data_ts ascending.
\* The default kind is not a stable sort: the order of equal keys is any.
Argsorts(ts) ==
    LET n == Len(ts)
    IN  { p \in [1..n -> 0..(n - 1)] :
            /\ \A i, j \in 1..n : i # j => p[i] # p[j]
            /\ \A i \in 1..n : i < n => ts[p[i] + 1] <= ts[p[i + 1] + 1] }

\* arr[idc] with an index array
Take(arr, idc) == [ i \in 1..Len(idc) |-> arr[idc[i] + 1] ]

\* Imu_Bisector.__init__ without the length check
ImuBisectorInitUnchecked(data, ts, idc) ==
    IF Len(data) = 0 /\ Len(ts) = 0
    THEN [ BisNew EXCEPT !.attrs = {"data", "data_ts", "sorted_idc"} ]
    ELSE [ raised |-> IF Len(data) < Len(ts) THEN "IndexError" ELSE "",
           attrs |-> {"data", "data_ts", "sorted_idc"},
           data |-> IF Len(data) < Len(ts) THEN data ELSE Take(data, idc),
           data_ts |-> Take(ts, idc),
           sorted_idc |-> idc ]

\* Imu_Bisector.__init__ that sorts the timestamps and leaves the payload as given
ImuBisectorInitTsOnly(data, ts, idc) ==
    IF Len(data) # Len(ts) THEN [ BisNew EXCEPT !.raised = "ValueError" ]
    ELSE [ raised |-> "", attrs |-> {"data", "data_ts", "sorted_idc"},
           data |-> data, data_ts |-> Take(ts, idc), sorted_idc |-> idc ]

\* Imu_Bisector.__init__(data, data_ts); idc is what np.argsort(data_ts) returned
ImuBisectorInit(data, ts, idc) ==
    IF Len(data) # Len(ts)
    THEN [ BisNew EXCEPT !.raised = "ValueError" ]
    ELSE IF Len(data) = 0
    THEN [ BisNew EXCEPT !.attrs = {"data", "data_ts", "sorted_idc"} ]
    ELSE [ raised |-> "",
           attrs |-> {"data", "data_ts", "sorted_idc"},
           data |-> Take(data, idc),
           data_ts |-> Take(ts, idc),
           sorted_idc |-> idc ]

\* Bisector.init_dict_for_window(ts_window): the entries with a timestamp in the
\* closed window, in stored order
RECURSIVE WindowIdx(_, _, _)
WindowIdx(ts, w, i) ==
    IF i > Len(ts) THEN <<>>
    ELSE IF w[1] <= ts[i] /\ ts[i] <= w[2] THEN <<i - 1>> \o WindowIdx(ts, w, i + 1)
    ELSE WindowIdx(ts, w, i + 1)

InitDictForWindow(b, w) ==
    LET idc == WindowIdx(b.data_ts, w, 1)
    IN  [ data |-> Take(b.data, idc), data_ts |-> Take(b.data_ts, idc) ]

\* pm.find_closest(target, source): for each source value the 0-based index of the
\* closest target value, the lower index on a tie
FindClosest(target, source) ==
    [ k \in 1..Len(source) |->
        (CHOOSE i \in 1..Len(target) :
            \A j \in 1..Len(target) :
                \/ Abs(target[i] - source[k]) < Abs(target[j] - source[k])
                \/ (Abs(target[i] - source[k]) = Abs(target[j] - source[k]) /\ i <= j)) - 1 ]

\* Imu_Exporter.csv_export_labels()
CsvExportLabels ==
    << "imu_timestamp", "world_index", "gyro_x", "gyro_y", "gyro_z",
       "accel_x", "accel_y", "accel_z", "pitch", "roll" >>

\* the fields dict_export reads from raw_value
RawFields == { "gyro_x", "gyro_y", "gyro_z", "accel_x", "accel_y", "accel_z", "pitch", "roll" }

\* Imu_Exporter.dict_export(raw_value, world_ts, world_index)
DictExport(raw_value, wts, world_index) ==
    IF RawFields \subseteq DOMAIN raw_value
    THEN [ imu_timestamp |-> Text(wts),
           world_index |-> Num(world_index),
           gyro_x |-> Num(raw_value.gyro_x),
           gyro_y |-> Num(raw_value.gyro_y),
           gyro_z |-> Num(raw_value.gyro_z),
           accel_x |-> Num(raw_value.accel_x),
           accel_y |-> Num(raw_value.accel_y),
           accel_z |-> Num(raw_value.accel_z),
           pitch |-> Num(raw_value.pitch),
           roll |-> Num(raw_value.roll) ]
    ELSE [ imu_timestamp |-> NONE,
           world_index |-> Num(world_index),
           gyro_x |-> NONE, gyro_y |-> NONE, gyro_z |-> NONE,
           accel_x |-> NONE, accel_y |-> NONE, accel_z |-> NONE,
           pitch |-> NONE, roll |-> NONE ]

\* the text csv.DictWriter writes for a value: "" for None, str(v) otherwise;
\* <<v>> stands for the decimal text of v
CsvCell(v) == IF v = NONE THEN <<>> ELSE <<v[2]>>

\* csv.DictWriter.writerow(dict_row): the cells in the order of the field names
WriteRow(header, dict_row) == [ c \in 1..Len(header) |-> CsvCell(dict_row[header[c]]) ]

Min(a, b) == IF a < b THEN a ELSE b

\* Imu_Exporter.csv_export_write that writes no header
CsvExportWriteNoHeader(b, timestamps, export_window) ==
    LET export_section == InitDictForWindow(b, export_window)
        export_world_idc == FindClosest(timestamps, export_section.data_ts)
    IN  [ r \in 1..Len(export_section.data) |->
            WriteRow(CsvExportLabels,
                     DictExport(export_section.data[r], export_section.data_ts[r],
                                export_world_idc[r])) ]

\* Imu_Exporter.csv_export_write(imu_bisector, timestamps, export_window, export_dir):
\* the rows of the file it leaves
CsvExportWrite(b, timestamps, export_window) ==
    LET export_section == InitDictForWindow(b, export_window)
        export_world_idc == FindClosest(timestamps, export_section.data_ts)
        csv_header == CsvExportLabels
        n == Min(Len(export_section.data),
                 Min(Len(export_section.data_ts), Len(export_world_idc)))
    IN  <<csv_header>> \o
        [ r \in 1..n |->
            WriteRow(csv_header,
                     DictExport(export_section.data[r], export_section.data_ts[r],
                                export_world_idc[r])) ]

(***************************************************************************)
(* Imu_Bisector and Imu_Exporter alone: construct from any pair of         *)
(* arrays, then export any window.                                         *)
(***************************************************************************)
Rows == { Row(1), Row(2), BadRow }
Times == { 5, 14, 20 }
Worlds == { <<0, 10, 20>> }
\* export windows: all, up to an entry, one entry, from an entry, inverted
Windows == { <<0, 25>>, <<0, 14>>, <<14, 14>>, <<14, 25>>, <<25, 0>> }

SeqsUpTo(S, n) == UNION { [1..k -> S] : k \in 0..n }

IdleB ==
    /\ b_data = <<>>
    /\ b_ts = <<>>
    /\ bis = BisNew
    /\ world_ts = <<0, 10, 20>>
    /\ win = <<>>
    /\ csv = CsvNone

(***************************************************************************)
(* fuser: the generator run by the background process                      *)
(***************************************************************************)
\* the generator before its first resumption; the Fusion object is created when
\* it is resumed after the first yield
FuserStart == [ pc |-> "start", ind |-> 0, fusion |-> FusionInit(0) ]

\* the head of the for loop at index ind over the first n samples of data:
\* update and yield "Fusing imu", or leave the loop and yield "Fusion complete"
FuserLoop(f, ind, data, n) ==
    IF ind < n
    THEN LET datum == data[ind + 1]
         IN  [ item |-> <<"Fusing imu", <<>>>>,
               gen |-> [ pc |-> "y56", ind |-> ind,
                         fusion |-> FusionUpdate(f, <<datum[4], datum[5], datum[6]>>,
                                                    <<datum[1], datum[2], datum[3]>>) ] ]
    ELSE [ item |-> <<"Fusion complete", <<>>>>,
           gen |-> [ pc |-> "y59", ind |-> ind, fusion |-> f ] ]

\* one resumption of fuser(data, ge) iterating over n samples: the item it
\* yields and the generator after it; the item StopIteration when it returns
FuserResume(gen, data, ge, n) ==
    CASE gen.pc = "start" ->
            [ item |-> <<"Fusing imu", <<>>>>, gen |-> [ gen EXCEPT !.pc = "y49" ] ]
      [] gen.pc = "y49" -> FuserLoop(FusionInit(ge), 0, data, n)
      [] gen.pc = "y56" ->
            [ item |-> <<"Fused datum", <<<<gen.fusion.pitch, gen.fusion.roll>>, gen.ind>>>>,
              gen |-> [ gen EXCEPT !.pc = "y57" ] ]
      [] gen.pc = "y57" -> FuserLoop(gen.fusion, gen.ind + 1, data, n)
      [] OTHER -> [ item |-> <<"StopIteration", <<>>>>, gen |-> [ gen EXCEPT !.pc = "done" ] ]

\* fuser that leaves out the last sample
FuserNextShort(gen, data, ge) == FuserResume(gen, data, ge, Len(data) - 1)

\* next(fuser(data_raw, gyro_error))
FuserNext(gen, data, ge) == FuserResume(gen, data, ge, Len(data))

(***************************************************************************)
(* bh.IPC_Logging_Task_Proxy: start, fetch (poll), completed, cancel       *)
(***************************************************************************)
\* start(samples, gyro_error): a new handle and its background process
TaskNew(ge) ==
    [ ge |-> ge, state |-> "active", proc |-> "running",
      gen |-> FuserStart, pipe |-> <<>>, got |-> <<>> ]

\* position of the first StopIteration in the pipe, 0 if there is none
RECURSIVE StopAt(_, _)
StopAt(pipe, i) ==
    IF i > Len(pipe) THEN 0
    ELSE IF pipe[i][1] = "StopIteration" THEN i ELSE StopAt(pipe, i + 1)

\* fetch(): everything the process has sent so far, in order; the handle is
\* completed once the end of the generator has been received; a completed or
\* cancelled handle yields nothing
TaskFetch(t) ==
    IF t.state # "active" THEN [ items |-> <<>>, task |-> t ]
    ELSE LET k == StopAt(t.pipe, 1)
             items == IF k = 0 THEN t.pipe ELSE SubSeq(t.pipe, 1, k - 1)
         IN  [ items |-> items,
               task |-> [ t EXCEPT !.pipe = <<>>,
                                   !.got = t.got \o items,
                                   !.state = IF k = 0 THEN "active" ELSE "completed" ] ]

\* cancel(): request termination and flush the pipe; nothing is delivered any
\* more and the task's FusionState is released
TaskCancel(t) ==
    IF t.state # "active" THEN t
    ELSE [ t EXCEPT !.state = "cancelled", !.pipe = <<>>, !.got = <<>>, !.gen = FuserStart ]

\* one step of the background process: it stops when it sees the termination
\* request, else sends the generator's next item, or the end of the generator
TaskProcessStep(t, data) ==
    IF t.state = "cancelled"
    THEN [ t EXCEPT !.proc = "exited" ]
    ELSE LET r == FuserNext(t.gen, data, t.ge)
         IN  [ t EXCEPT !.gen = r.gen,
                        !.pipe = Append(t.pipe, r.item),
                        !.proc = IF r.item[1] = "StopIteration" THEN "exited" ELSE "running" ]

(***************************************************************************)
(* class IMUTimeline                                                       *)
(***************************************************************************)
\* samples of a recording: at rest and tilted, turning, aligned with gravity
SampleA == <<90, 0, 0, 600, 0, 800>>
SampleB == <<0, -45, 120, -300, 400, 1200>>
SampleZ == <<0, 0, 0, 0, 0, ONE>>

\* the raw files of the recordings and their timestamp files
RawStream == <<SampleA, SampleB, SampleZ, SampleA>>
TsStream == <<14, 5, 20, 20>>

\* the export windows the host asks for: all of the recording, its first moments
ExportWindows == { <<0, 25>>, <<0, 5>> }

\* what np.empty left in the orientation buffer
Garbage == { 0 }

\* _fuse without the cancellation of the running task
FuseNoCancel(ts, bg, ge) == Append(ts, TaskNew(ge))

\* _fuse(): the task proxies after it; the new one is the last
Fuse(ts, bg, ge) ==
    Append(IF bg # 0 THEN [ ts EXCEPT ![bg] = TaskCancel(ts[bg]) ] ELSE ts, TaskNew(ge))

\* the loop body of recent_events that takes the index itself for the test
RECURSIVE StoreFetchedIfIndex(_, _, _)
StoreFetchedIfIndex(orient, items, t) ==
    IF items = <<>> THEN orient
    ELSE LET task_data == Head(items)[2]
             next == IF task_data # <<>> /\ task_data[2] # 0
                     THEN [ orient EXCEPT ![task_data[2] + 1] =
                              [ pitch |-> task_data[1][1], roll |-> task_data[1][2], by |-> t ] ]
                     ELSE orient
         IN  StoreFetchedIfIndex(next, Tail(items), t)

\* the loop of recent_events over the fetched items of task t: every item with
\* task_data stores pitch and roll at its index
RECURSIVE StoreFetched(_, _, _)
StoreFetched(orient, items, t) ==
    IF items = <<>> THEN orient
    ELSE LET task_data == Head(items)[2]
             next == IF task_data # <<>>
                     THEN [ orient EXCEPT ![task_data[2] + 1] =
                              [ pitch |-> task_data[1][1], roll |-> task_data[1][2], by |-> t ] ]
                     ELSE orient
         IN  StoreFetched(next, Tail(items), t)

\* merge_arrays(data_raw, data_orient)
MergeArrays(arr1, arr2) ==
    [ i \in 1..Len(arr1) |->
        [ gyro_x |-> arr1[i][1], gyro_y |-> arr1[i][2], gyro_z |-> arr1[i][3],
          accel_x |-> arr1[i][4], accel_y |-> arr1[i][5], accel_z |-> arr1[i][6],
          pitch |-> arr2[i].pitch, roll |-> arr2[i].roll ] ]

\* the plugin variables while another component is under test
IdleP ==
    /\ is_invisible_rec = FALSE
    /\ data_raw = <<>>
    /\ data_ts = <<>>
    /\ data_orient = <<>>
    /\ gyro_error = 50
    /\ bg_task = 0
    /\ tasks = <<>>

\* IMUTimeline.__init__: without imu files the plugin stays disabled
Init ==
    /\ gyro_error = 50
    /\ bg_task = 0
    /\ tasks = <<>>
    /\ \/ /\ is_invisible_rec = FALSE
          /\ data_raw = <<>>
          /\ data_ts = <<>>
          /\ data_orient = <<>>
       \/ /\ is_invisible_rec = TRUE
          /\ \E n \in 0..MaxData, g \in Garbage :
                /\ data_raw = SubSeq(RawStream, 1, n)
                /\ data_ts = SubSeq(TsStream, 1, n)
                /\ data_orient = [ i \in 1..n |-> [ pitch |-> g, roll |-> g, by |-> 0 ] ]
    /\ IdleF
    /\ IdleB
    /\ IdleL

\* init_ui(): builds the menu and starts the fusion
InitUI ==
    /\ Len(tasks) < MaxTasks
    /\ IF is_invisible_rec
       THEN /\ tasks' = Fuse(tasks, bg_task, gyro_error)
            /\ bg_task' = Len(tasks) + 1
       ELSE UNCHANGED <<tasks, bg_task>>
    /\ UNCHANGED <<is_invisible_rec, data_raw, data_ts, data_orient, gyro_error>>
    /\ UNCHANGED <<varsF, varsB, csv, varsL>>

\* set_gyro_error(new_value), the setter of the slider; the should_fuse
\* notification it posts is delivered by the host (OnNotifyShouldFuse)
SetGyroError ==
    /\ is_invisible_rec
    /\ \E new_value \in GyroErrors : gyro_error' = new_value
    /\ UNCHANGED <<is_invisible_rec, data_raw, data_ts, data_orient, bg_task, tasks>>
    /\ UNCHANGED <<varsF, varsB, csv, varsL>>

\* on_notify({"subject": "madgwick_fusion.should_fuse"})
OnNotifyShouldFuse ==
    /\ Len(tasks) < MaxTasks
    /\ IF is_invisible_rec
       THEN /\ tasks' = Fuse(tasks, bg_task, gyro_error)
            /\ bg_task' = Len(tasks) + 1
       ELSE UNCHANGED <<tasks, bg_task>>
    /\ UNCHANGED <<is_invisible_rec, data_raw, data_ts, data_orient, gyro_error>>
    /\ UNCHANGED <<varsF, varsB, csv, varsL>>

\* on_notify({"subject": "should_export", "ts_window": w}): export_data unless a
\* fusion task is set
OnNotifyShouldExport ==
    /\ \E w \in ExportWindows, idc \in Argsorts(data_ts) :
          IF is_invisible_rec /\ bg_task = 0
          THEN LET imu_bisector == ImuBisectorInit(MergeArrays(data_raw, data_orient), data_ts, idc)
               IN  IF imu_bisector.raised = ""
                   THEN csv' = CsvExportWrite(imu_bisector, world_ts, w)
                   ELSE UNCHANGED csv
          ELSE UNCHANGED csv
    /\ UNCHANGED varsP
    /\ UNCHANGED <<varsF, varsB, varsL>>

\* cleanup()
Cleanup ==
    /\ IF bg_task # 0
       THEN /\ tasks' = [ tasks EXCEPT ![bg_task] = TaskCancel(tasks[bg_task]) ]
            /\ bg_task' = 0
       ELSE UNCHANGED <<tasks, bg_task>>
    /\ UNCHANGED <<is_invisible_rec, data_raw, data_ts, data_orient, gyro_error>>
    /\ UNCHANGED <<varsF, varsB, csv, varsL>>

\* recent_events(events)
RecentEvents ==
    /\ IF bg_task # 0
       THEN LET f == TaskFetch(tasks[bg_task])
            IN  /\ data_orient' = StoreFetched(data_orient, f.items, bg_task)
                /\ tasks' = [ tasks EXCEPT ![bg_task] = f.task ]
                /\ bg_task' = IF f.task.state = "completed" THEN 0 ELSE bg_task
       ELSE UNCHANGED <<data_orient, tasks, bg_task>>
    /\ UNCHANGED <<is_invisible_rec, data_raw, data_ts, gyro_error>>
    /\ UNCHANGED <<varsF, varsB, csv, varsL>>

\* the background process of task t runs one step
ProcessStep ==
    /\ \E t \in 1..Len(tasks) :
          /\ tasks[t].proc = "running"
          /\ tasks' = [ tasks EXCEPT ![t] = TaskProcessStep(tasks[t], data_raw) ]
    /\ UNCHANGED <<is_invisible_rec, data_raw, data_ts, data_orient, gyro_error, bg_task>>
    /\ UNCHANGED <<varsF, varsB, csv, varsL>>

Next ==
    \/ InitUI
    \/ SetGyroError
    \/ OnNotifyShouldFuse
    \/ OnNotifyShouldExport
    \/ Cleanup
    \/ RecentEvents
    \/ ProcessStep

(***************************************************************************)
(* Imu_Bisector and Imu_Exporter alone: the actions                        *)
(***************************************************************************)
InitB ==
    /\ IdleF
    /\ IdleP
    /\ IdleL
    /\ b_data \in SeqsUpTo(Rows, MaxLen)
    /\ b_ts \in SeqsUpTo(Times, MaxLen)
    /\ bis = BisNew
    /\ world_ts \in Worlds
    /\ win = <<>>
    /\ csv = CsvNone

Construct ==
    /\ bis = BisNew
    /\ \E idc \in Argsorts(b_ts) : bis' = ImuBisectorInit(b_data, b_ts, idc)
    /\ UNCHANGED <<b_data, b_ts, world_ts, win, csv>>
    /\ UNCHANGED <<varsF, varsP, varsL>>

Export ==
    /\ bis # BisNew
    /\ bis.raised = ""
    /\ \E w \in Windows :
          /\ win' = w
          /\ csv' = CsvExportWrite(bis, world_ts, w)
    /\ UNCHANGED <<b_data, b_ts, bis, world_ts>>
    /\ UNCHANGED <<varsF, varsP, varsL>>

NextB == Construct \/ Export

(***************************************************************************)
(* Fusion alone: any sequence of update calls on a fresh instance.         *)
(***************************************************************************)
InitF ==
    /\ IdleB
    /\ IdleP
    /\ IdleL
    /\ \E g \in GyroErrors : fusion = FusionInit(g)
    /\ f_prev = fusion
    /\ f_in = <<>>
    /\ f_n = 0

Update ==
    /\ f_n < MaxUpdates
    /\ \E accel \in Accels, gyro \in Gyros :
          /\ fusion' = FusionUpdate(fusion, accel, gyro)
          /\ f_in' = <<accel, gyro>>
    /\ f_prev' = fusion
    /\ f_n' = f_n + 1
    /\ UNCHANGED <<varsB, csv, varsP, varsL>>

NextF == Update

(***************************************************************************)
(* class IMURecording, and IMUTimeline.__init__ over the recordings of a   *)
(* directory.                                                              *)
(***************************************************************************)
MaxStored == 3
MaxRecs == 2

\* the files behind a path: the raw file with its whole samples and the
\* timestamp file, each there or not
StoredFiles ==
    { [ raw_exists |-> re, ts_exists |-> te,
        raw |-> IF re THEN SubSeq(RawStream, 1, j) ELSE <<>>,
        ts |-> IF te THEN SubSeq(TsStream, 1, k) ELSE <<>> ] :
        re \in BOOLEAN, te \in BOOLEAN, j \in 0..MaxStored, k \in 0..MaxStored }

\* the number of samples stored for a path, none without a raw file
StoredRaw(file) == IF file.raw_exists THEN Len(file.raw) ELSE 0

\* load() that drops the newest timestamps
IMURecordingLoadDropNewest(file) ==
    IF ~file.raw_exists /\ file.ts_exists
    THEN [ file |-> file, raised |-> "", ts |-> <<>>, raw |-> <<>> ]
    ELSE IF ~file.ts_exists
    THEN [ file |-> file, raised |-> "FileNotFoundError", ts |-> <<>>, raw |-> <<>> ]
    ELSE LET num_ts_during_init == Len(file.ts) - Len(file.raw)
         IN  [ file |-> file, raised |-> "", raw |-> file.raw,
               ts |-> IF num_ts_during_init > 0
                      THEN SubSeq(file.ts, 1, Len(file.raw))
                      ELSE file.ts ]

\* IMURecording(path).load(): np.load raises without the timestamp file
IMURecordingLoad(file) ==
    IF ~file.raw_exists /\ file.ts_exists
    THEN [ file |-> file, raised |-> "", ts |-> <<>>, raw |-> <<>> ]
    ELSE IF ~file.ts_exists
    THEN [ file |-> file, raised |-> "FileNotFoundError", ts |-> <<>>, raw |-> <<>> ]
    ELSE LET num_ts_during_init == Len(file.ts) - Len(file.raw)
         IN  [ file |-> file, raised |-> "", raw |-> file.raw,
               ts |-> IF num_ts_during_init > 0
                      THEN SubSeq(file.ts, num_ts_during_init + 1, Len(file.ts))
                      ELSE file.ts ]

\* np.concatenate over a field of the recordings
RECURSIVE Concatenate(_, _)
Concatenate(recs, field) ==
    IF recs = <<>> THEN <<>> ELSE Head(recs)[field] \o Concatenate(Tail(recs), field)

InitL ==
    /\ IdleF
    /\ IdleB
    /\ IdleP
    /\ imu_recs = <<>>

\* IMURecording(imu_file)
LoadRecording ==
    /\ ~is_invisible_rec
    /\ Len(imu_recs) < MaxRecs
    /\ \E file \in StoredFiles : imu_recs' = Append(imu_recs, IMURecordingLoad(file))
    /\ UNCHANGED <<varsF, varsB, csv, varsP>>

\* IMUTimeline.__init__ once the recordings of the directory are loaded: the
\* imu files are found by the pattern of the raw files, and a load that raised
\* leaves no plugin
TimelineInit ==
    /\ ~is_invisible_rec
    /\ \A i \in 1..Len(imu_recs) : imu_recs[i].file.raw_exists /\ imu_recs[i].raised = ""
    /\ IF Len(imu_recs) = 0
       THEN UNCHANGED <<is_invisible_rec, data_raw, data_ts, data_orient>>
       ELSE /\ is_invisible_rec' = TRUE
            /\ data_raw' = Concatenate(imu_recs, "raw")
            /\ data_ts' = Concatenate(imu_recs, "ts")
            /\ \E g \in Garbage :
                  data_orient' = [ i \in 1..Len(Concatenate(imu_recs, "raw")) |->
                                     [ pitch |-> g, roll |-> g, by |-> 0 ] ]
    /\ UNCHANGED <<gyro_error, bg_task, tasks>>
    /\ UNCHANGED <<varsF, varsB, csv, varsL>>

NextL == LoadRecording \/ TimelineInit

(***************************************************************************)
(* Properties of the plugin and its fusion tasks (checked under Spec)      *)
(***************************************************************************)
IsPrefix(a, b) == Len(a) <= Len(b) /\ SubSeq(b, 1, Len(a)) = a

\* C1: at most one fusion task is active: _fuse cancels the task in bg_task
\* before it starts a new one, so no two tasks are at once neither cancelled
\* nor completed.
C1_AtMostOneActiveTask ==
    /\ Cardinality({ t \in 1..Len(tasks) : tasks[t].state = "active" }) <= 1
    /\ \A t \in 1..Len(tasks) : tasks[t].state = "active" => bg_task = t

\* a second task was started while the first was running: the first is
\* cancelled, its process has not yet stopped, the second is active
C1_Witness ==
    /\ Len(tasks) = 2
    /\ tasks[1].state = "cancelled"
    /\ tasks[1].proc = "running"
    /\ tasks[2].state = "active"
    /\ bg_task = 2

\* the results task t has delivered so far are in the buffer, written by t
ReachedHoldsOwn(t, orient, ts) ==
    \A k \in 1..Len(ts[t].got) :
        LET task_data == ts[t].got[k][2]
        IN  task_data # <<>> =>
                orient[task_data[2] + 1] =
                    [ pitch |-> task_data[1][1], roll |-> task_data[1][2], by |-> t ]

\* C2: after a task was cancelled and a new one started, every index the new
\* task has reached holds the new task's result, and no step writes a result
\* into the buffer other than one of the task that is in bg_task and active.
C2_OnlyCurrentTaskWrites ==
    [][ /\ bg_task' # 0 => ReachedHoldsOwn(bg_task', data_orient', tasks')
        /\ \A i \in 1..Len(data_orient) :
              data_orient'[i] # data_orient[i] =>
                  /\ bg_task # 0
                  /\ tasks[bg_task].state = "active"
                  /\ data_orient'[i].by = bg_task ]_vars

\* the first task wrote both indices and was cancelled; the new task has
\* reached index 0 only, index 1 still holds the cancelled task's result
C2_Witness ==
    /\ Len(tasks) = 2
    /\ Len(data_orient) >= 2
    /\ tasks[1].state = "cancelled"
    /\ bg_task = 2
    /\ data_orient[1].by = 2
    /\ data_orient[2].by = 1

\* C3: a task is seen completed only after its result for every index
\* 0..data_len-1 was fetched and written to the buffer (where a later task has
\* not overwritten it since).
C3_CompleteAfterAllDelivered ==
    \A t \in 1..Len(tasks) :
        tasks[t].state = "completed" =>
            \A i \in 1..Len(data_raw) :
                /\ \E k \in 1..Len(tasks[t].got) :
                      /\ tasks[t].got[k][1] = "Fused datum"
                      /\ tasks[t].got[k][2][2] = i - 1
                      /\ data_orient[i].by = t =>
                            /\ data_orient[i].pitch = tasks[t].got[k][2][1][1]
                            /\ data_orient[i].roll = tasks[t].got[k][2][1][2]
                /\ data_orient[i].by >= t

\* recent_events has just seen a task over two samples complete
C3_Witness ==
    /\ Len(data_raw) >= 2
    /\ bg_task = 0
    /\ Len(tasks) >= 1
    /\ tasks[Len(tasks)].state = "completed"
    /\ \A i \in 1..Len(data_raw) : data_orient[i].by = Len(tasks)

C13_ExportOnlyFullyFused ==
    [][ /\ bg_task # 0 => csv' = csv
        /\ csv' # csv =>
              /\ \A t \in 1..Len(tasks) : tasks[t].state # "active"
              /\ tasks # <<>> =>
                    \A i \in 1..Len(data_raw) : data_orient[i].by = Len(tasks) ]_vars

(***************************************************************************)
(* Properties of Fusion (checked under SpecFusion)                         *)
(***************************************************************************)
SumSq(q) == q[1] * q[1] + q[2] * q[2] + q[3] * q[3] + q[4] * q[4]

\* C5: an update with accel = (0,0,0) changes nothing: for any gyro and any
\* prior state, q, pitch and roll after the call are those before the call.
C5_ZeroAccelNoChange ==
    (f_in # <<>> /\ f_in[1] = <<0, 0, 0>>) =>
        /\ fusion.q = f_prev.q
        /\ fusion.pitch = f_prev.pitch
        /\ fusion.roll = f_prev.roll

\* an update with zero accel and a non-zero gyro reading was applied to a filter
\* that had already left the identity
C5_Witness ==
    /\ f_in # <<>>
    /\ f_in[1] = <<0, 0, 0>>
    /\ f_in[2] # <<0, 0, 0>>
    /\ f_n >= 2
    /\ f_prev.q # <<ONE, 0, 0, 0>>
    /\ f_prev.q[1] # NaN
    /\ fusion = f_prev

\* C6: starting from the identity quaternion, after every update the quaternion
\* is well defined and has unit norm (here: within 1 percent of ONE squared).
C6_UnitNormAfterUpdate ==
    f_n > 0 =>
        /\ fusion.q[1] # NaN
        /\ Abs(SumSq(fusion.q) - ONE * ONE) <= (ONE * ONE) \div 100

(***************************************************************************)
(* Properties of Imu_Bisector and Imu_Exporter (checked under SpecBisector)*)
(***************************************************************************)
\* C7: a length mismatch raises ValueError before anything is stored on the
\* instance; two empty arrays give an empty bisector and no error.
C7_LengthValidation ==
    bis # BisNew =>
        /\ Len(b_data) # Len(b_ts) => (bis.raised = "ValueError" /\ bis.attrs = {})
        /\ (Len(b_data) = 0 /\ Len(b_ts) = 0) =>
              /\ bis.raised = ""
              /\ bis.attrs = {"data", "data_ts", "sorted_idc"}
              /\ bis.data = <<>>
              /\ bis.data_ts = <<>>
              /\ bis.sorted_idc = <<>>

\* the constructor was called with a non-empty payload and fewer timestamps
C7_Witness ==
    /\ bis # BisNew
    /\ Len(b_data) > Len(b_ts)
    /\ Len(b_ts) > 0
    /\ bis.raised = "ValueError"

\* C8: for non-empty arrays of equal length the stored timestamps are
\* non-decreasing and data[i], data_ts[i] are payload and timestamp of the same
\* input element, the stored pairs being a permutation of the input pairs.
C8_SortedAndPaired ==
    (bis # BisNew /\ Len(b_data) = Len(b_ts) /\ Len(b_data) > 0) =>
        LET n == Len(b_data)
        IN  /\ bis.raised = ""
            /\ Len(bis.data) = n /\ Len(bis.data_ts) = n /\ Len(bis.sorted_idc) = n
            /\ \A i \in 1..(n - 1) : bis.data_ts[i] <= bis.data_ts[i + 1]
            /\ \A i \in 1..n : bis.sorted_idc[i] \in 0..(n - 1)
            /\ \A i, j \in 1..n : i # j => bis.sorted_idc[i] # bis.sorted_idc[j]
            /\ \A i \in 1..n :
                  /\ bis.data[i] = b_data[bis.sorted_idc[i] + 1]
                  /\ bis.data_ts[i] = b_ts[bis.sorted_idc[i] + 1]

\* a bisector was built from timestamps out of order over distinct payloads
C8_Witness ==
    /\ bis # BisNew
    /\ bis.raised = ""
    /\ Len(b_data) >= 3
    /\ \E i, j \in 1..Len(b_ts) : i < j /\ b_ts[i] > b_ts[j] /\ b_data[i] # b_data[j]

\* C9: the sort is stable: of two input elements with equal timestamps the one
\* that came first in the input comes first in sorted_idc, data and data_ts.
C9_StableUnderTies ==
    (bis # BisNew /\ bis.raised = "") =>
        \A i, j \in 1..Len(bis.sorted_idc) :
            (i < j /\ bis.data_ts[i] = bis.data_ts[j]) =>
                bis.sorted_idc[i] < bis.sorted_idc[j]

\* the positions of the bisector's entries inside the closed window w
InWindow(w) == { i \in 1..Len(bis.data_ts) : w[1] <= bis.data_ts[i] /\ bis.data_ts[i] <= w[2] }

\* the r-th position of InWindow(w), in ascending order
NthInWindow(w, r) ==
    CHOOSE i \in InWindow(w) : Cardinality({ j \in InWindow(w) : j < i }) = r - 1

\* C10: the file holds one header row with the 10 column names in order, then
\* one data row per bisector entry in the closed window [start, end], in
\* ascending timestamp order; the full window of n entries gives n data rows.
C10_CsvHeaderAndRows ==
    csv # CsvNone =>
        /\ Len(csv) >= 1
        /\ csv[1] = << "imu_timestamp", "world_index", "gyro_x", "gyro_y", "gyro_z",
                       "accel_x", "accel_y", "accel_z", "pitch", "roll" >>
        /\ Len(csv) - 1 = Cardinality(InWindow(win))
        /\ \A r \in 1..(Len(csv) - 1) :
              LET i == NthInWindow(win, r)
              IN  /\ Len(csv[r + 1]) = 10
                  /\ RawFields \subseteq DOMAIN bis.data[i] =>
                        /\ csv[r + 1][1] = <<bis.data_ts[i]>>
                        /\ csv[r + 1][3] = <<bis.data[i].gyro_x>>
                        /\ csv[r + 1][9] = <<bis.data[i].pitch>>
        /\ win = <<0, 25>> => Len(csv) - 1 = Len(bis.data)

\* a window ending exactly on an entry's timestamp was exported: at least two
\* rows were written and at least one later entry was left out
C10_Witness ==
    /\ csv # CsvNone
    /\ win = <<0, 14>>
    /\ Len(csv) >= 3
    /\ Len(csv) - 1 < Len(bis.data)
    /\ \E i \in 1..Len(bis.data_ts) : bis.data_ts[i] = 14

\* C11: a data row of the export that lacks an expected field is written with
\* an empty value in every one of its 10 columns, and the export goes on: the
\* file still has one row per entry of the window.
C11_SchemaGapRowAllEmpty ==
    csv # CsvNone =>
        /\ Len(csv) - 1 = Cardinality(InWindow(win))
        /\ \A r \in 1..(Len(csv) - 1) :
              ~(RawFields \subseteq DOMAIN bis.data[NthInWindow(win, r)]) =>
                  /\ Len(csv[r + 1]) = 10
                  /\ \A c \in 1..10 : csv[r + 1][c] = <<>>

(***************************************************************************)
(* Properties of IMURecording.load (checked under SpecLoad)                *)
(***************************************************************************)
\* the last n elements of a sequence
LastN(seq, n) == SubSeq(seq, Len(seq) - n + 1, Len(seq))

\* C12 as stated: after load, len(ts) = len(raw) for every stored raw-sample
\* count and timestamp count; with more timestamps than samples the oldest
\* ones are dropped and the tail is kept in order; so data_ts and data_raw of
\* the plugin have equal length.
C12_EqualLengthsAlways ==
    /\ \A i \in 1..Len(imu_recs) :
          imu_recs[i].raised = "" =>
              /\ Len(imu_recs[i].ts) = Len(imu_recs[i].raw)
              /\ Len(imu_recs[i].file.ts) > StoredRaw(imu_recs[i].file) =>
                    imu_recs[i].ts = LastN(imu_recs[i].file.ts, StoredRaw(imu_recs[i].file))
    /\ is_invisible_rec => Len(data_ts) = Len(data_raw)

\* C12 (amended): after a load that returns, len(ts) = len(raw) whenever at
\* least as many timestamps as raw samples are stored, ts being the stored
\* timestamps without the oldest surplus ones, in order; with fewer timestamps
\* than samples nothing is trimmed and the lengths differ. data_ts and
\* data_raw of the plugin have equal length when no recording has fewer
\* timestamps than samples.
C12_EqualLengthsUnlessMoreRaw ==
    /\ \A i \in 1..Len(imu_recs) :
          imu_recs[i].raised = "" =>
              /\ Len(imu_recs[i].file.ts) >= StoredRaw(imu_recs[i].file) =>
                    /\ Len(imu_recs[i].ts) = Len(imu_recs[i].raw)
                    /\ imu_recs[i].ts = LastN(imu_recs[i].file.ts, StoredRaw(imu_recs[i].file))
              /\ Len(imu_recs[i].file.ts) < StoredRaw(imu_recs[i].file) =>
                    /\ imu_recs[i].ts = imu_recs[i].file.ts
                    /\ imu_recs[i].raw = imu_recs[i].file.raw
                    /\ Len(imu_recs[i].ts) < Len(imu_recs[i].raw)
    /\ (/\ is_invisible_rec
        /\ \A i \in 1..Len(imu_recs) :
              Len(imu_recs[i].file.ts) >= StoredRaw(imu_recs[i].file)) =>
          /\ Len(data_ts) = Len(data_raw)
          /\ Len(data_orient) = Len(data_raw)

\* the plugin was built from two recordings, one of them with more timestamps
\* than samples, which lost its oldest timestamps
C12_Witness ==
    /\ is_invisible_rec
    /\ Len(imu_recs) = 2
    /\ \E i \in 1..2 :
          /\ Len(imu_recs[i].file.raw) >= 1
          /\ Len(imu_recs[i].file.ts) > Len(imu_recs[i].file.raw)
          /\ Len(imu_recs[i].ts) < Len(imu_recs[i].file.ts)
          /\ imu_recs[i].ts # SubSeq(imu_recs[i].file.ts, 1, Len(imu_recs[i].ts))
    /\ Len(data_ts) = Len(data_raw)
    /\ Len(data_raw) >= 2

(***************************************************************************)
(* Specifications                                                          *)
(***************************************************************************)
Spec == Init /\ [][Next]_vars

SpecFusion == InitF /\ [][NextF]_vars

SpecBisector == InitB /\ [][NextB]_vars

SpecLoad == InitL /\ [][NextL]_vars

=============================================================================
